---- MODULE Spec2Model ----
(***************************************************************************)
(* Model of the WCP CSI controller (pkg/csi/service/wcp/controller.go):    *)
(*   - the fsnotify watcher goroutine started by controller.Init,          *)
(*   - controller.ReloadConfiguration, step by step (it takes no lock),    *)
(*   - the CreateVolume / DeleteVolume / ControllerPublishVolume /         *)
(*     ControllerUnpublishVolume handlers running concurrently with it,    *)
(*   - getSharedDatastoresInPodVMK8SCluster (loop and fold),               *)
(*   - the parameter scan and the sizing arithmetic of CreateVolume.       *)
(***************************************************************************)
EXTENDS Integers, Sequences, FiniteSets, TLC

(***************************************************************************)
(* Bounds                                                                  *)
(***************************************************************************)
MaxReloads == 2

\* transient errors the watch mechanism delivers
MaxErrors == 2

None == "none"

\* volume ids the backing volume manager hands out
VolumeIds == {"vol1"}

(***************************************************************************)
(* Configuration values                                                    *)
(***************************************************************************)
VcHosts == {"vc1", "vc2"}

Usernames == {"u1", "u2"}

Passwords == {"p1", "p2"}

ClusterIDs == {"cl1"}

\* the config.Config the driver starts with, as far as the controller uses it
InitialConfig == [Host |-> "vc1", Username |-> "u1", Password |-> "p1", ClusterID |-> "cl1"]

\* the contents the config secret takes: the initial one, and those of a
\* rotation of the host, of the user name or of the password
Configs == {c \in [Host : VcHosts, Username : Usernames, Password : Passwords, ClusterID : ClusterIDs] :
              Cardinality({f \in {"Host", "Username", "Password"} : c[f] # InitialConfig[f]}) <= 1}

\* cnsvsphere.GetVirtualCenterConfig(cfg): the endpoint config derived from cfg
GetVirtualCenterConfig(cfg) == [Host |-> cfg.Host, Username |-> cfg.Username, Password |-> cfg.Password]

(***************************************************************************)
(* fsnotify events                                                         *)
(***************************************************************************)
\* fsnotify.Remove, the bit of fsnotify.Op tested by the watcher
fsnotifyRemove == 4

\* the config file the driver reads, and another entry of the same directory
TrackedFile == "cfgPath"

FileNames == {TrackedFile, "otherFile"}

\* operation masks the watch mechanism delivers (the last one has two bits set)
\* Create = 1, Write = 2, Remove = 4, Write|Remove = 6
EventOps == {1, 2, fsnotifyRemove, 2 + fsnotifyRemove}

FsEvents == [Name : FileNames, Op : EventOps]

\* bit b (a power of two) of mask m
Bit(m, b) == (m \div b) % 2

\* m & b for a single-bit b
BitAnd(m, b) == Bit(m, b) * b

\* a variant that takes the mask to be Remove alone
IsRemoveEventMutExact(event) == event.Op = fsnotifyRemove

\* event.Op&fsnotify.Remove == fsnotify.Remove
IsRemoveEvent(event) == BitAnd(event.Op, fsnotifyRemove) = fsnotifyRemove

(***************************************************************************)
(* getSharedDatastoresInPodVMK8SCluster                                    *)
(***************************************************************************)
MaxClusterHosts == 3

MaxAccessible == 3

\* datastore URLs, the keys the intersection compares
Urls == {"A", "B", "C"}

\* the duplicate-free sequences over S of length at most n
DupFreeSeqs(S, n) == {q \in UNION {[1..k -> S] : k \in 0..n} : \A i, j \in DOMAIN q : i # j => q[i] # q[j]}

\* what one host answers to GetAllAccessibleDatastores: an error, or its list
HostAnswers == {[ok |-> TRUE, urls |-> q] : q \in DupFreeSeqs(Urls, MaxAccessible)} \cup {[ok |-> FALSE, urls |-> <<>>]}

\* the hosts of a cluster, in the order GetHostsByCluster returns them
Cluster(f) == [k \in DOMAIN f |-> [Name |-> k, ok |-> f[k].ok, urls |-> f[k].urls]]

Clusters == {Cluster(f) : f \in UNION {[1..n -> HostAnswers] : n \in 0..MaxClusterHosts}}

\* host.GetAllAccessibleDatastores(ctx): the DatastoreInfo objects this host's
\* fetch builds, each with its Info.Url
GetAllAccessibleDatastores(host) == [j \in 1..Len(host.urls) |-> [Url |-> host.urls[j], From |-> host.Name]]

UrlsOf(list) == {list[j].Url : j \in DOMAIN list}

\* a variant that keeps the entries of accessibleDatastores instead
IntersectMutFromAccessible(sharedDatastores, accessibleDatastores) == SelectSeq(accessibleDatastores, LAMBDA a : \E j \in DOMAIN sharedDatastores : sharedDatastores[j].Url = a.Url)

\* the nested loops: every sharedDs whose Info.Url some accessibleDs has,
\* appended once, in the order of sharedDatastores
Intersect(sharedDatastores, accessibleDatastores) == SelectSeq(sharedDatastores, LAMBDA sharedDs : \E j \in DOMAIN accessibleDatastores : sharedDs.Url = accessibleDatastores[j].Url)

\* a variant that seeds at every host and never intersects
UpdateSharedMutAlwaysSeed(sharedDatastores, accessibleDatastores) == accessibleDatastores

\* if len(sharedDatastores) == 0 { seed } else { intersect }
UpdateShared(sharedDatastores, accessibleDatastores) == IF Len(sharedDatastores) = 0 THEN accessibleDatastores ELSE Intersect(sharedDatastores, accessibleDatastores)

\* a variant without the empty check after a host
NoSharedLeftMutNever(sharedDatastores) == FALSE

\* if len(sharedDatastores) == 0 { return nil, error } after each host
NoSharedLeft(sharedDatastores) == Len(sharedDatastores) = 0

\* a run of the resolver: position, the hosts, the loop index, the running
\* shared list, the hosts fetched so far, and what it returned
ResolverStart(hosts) == [pc |-> "entry", hosts |-> hosts, i |-> 1, shared |-> <<>>, fetched |-> <<>>, ret |-> <<>>, err |-> "", errHost |-> 0]

ResolverFail(r, e, h) == [r EXCEPT !.pc = "done", !.ret = <<>>, !.err = e, !.errHost = h]

\* if len(hosts) == 0 { return empty list, error }
CheckHosts(r) == IF Len(r.hosts) = 0 THEN ResolverFail(r, "EmptyHosts", 0) ELSE [r EXCEPT !.pc = "loop"]

\* a variant that goes on to the next host when a fetch fails
LoopStepMutSkipFailed(r) ==
  IF r.i > Len(r.hosts) THEN [r EXCEPT !.pc = "done", !.ret = r.shared]
  ELSE LET host == r.hosts[r.i]
           f == [r EXCEPT !.fetched = Append(@, host.Name)]
       IN IF ~host.ok THEN [f EXCEPT !.i = @ + 1]
          ELSE LET sh == UpdateShared(r.shared, GetAllAccessibleDatastores(host))
               IN IF NoSharedLeft(sh) THEN ResolverFail([f EXCEPT !.shared = sh], "NoSharedDatastores", host.Name)
                  ELSE [f EXCEPT !.shared = sh, !.i = @ + 1]

\* one iteration of for _, host := range hosts, or the return after the loop
LoopStep(r) ==
  IF r.i > Len(r.hosts) THEN [r EXCEPT !.pc = "done", !.ret = r.shared]
  ELSE LET host == r.hosts[r.i]
           f == [r EXCEPT !.fetched = Append(@, host.Name)]
       IN IF ~host.ok THEN ResolverFail(f, "FetchFailed", host.Name)
          ELSE LET sh == UpdateShared(r.shared, GetAllAccessibleDatastores(host))
               IN IF NoSharedLeft(sh) THEN ResolverFail([f EXCEPT !.shared = sh], "NoSharedDatastores", host.Name)
                  ELSE [f EXCEPT !.shared = sh, !.i = @ + 1]

RECURSIVE RunLoop(_)
RunLoop(r) == IF r.pc = "done" THEN r ELSE RunLoop(LoopStep(r))

\* the resolver from the host list on, run to its return
SharedDatastores(hosts) == RunLoop(CheckHosts(ResolverStart(hosts)))

(***************************************************************************)
(* CreateVolume: the parameter scan                                        *)
(***************************************************************************)
MaxParams == 3

\* common.AttributeStoragePolicyID, common.AttributeAffineToHost
AttributeStoragePolicyID == "storagepolicyid"

AttributeAffineToHost == "affinetohost"

\* parameter names a request may carry
ParamNames == {"storagepolicyid", "STORAGEPOLICYID", "affinetohost", "AffineToHost", "fstype", "FsType"}

ParamValues == {"x", "y"}

\* strings.ToLower on the names above
ToLower(name) ==
  CASE name = "STORAGEPOLICYID" -> "storagepolicyid"
    [] name = "AffineToHost" -> "affinetohost"
    [] name = "FsType" -> "fstype"
    [] OTHER -> name

\* req.Parameters: maps from at most MaxParams names to values
ParamMaps == UNION {[D -> ParamValues] : D \in {X \in SUBSET ParamNames : Cardinality(X) <= MaxParams}}

\* m[key] of a Go map: the zero value when the key is absent
MapGet(m, key) == IF key \in DOMAIN m THEN m[key] ELSE ""

\* the body of for paramName := range req.Parameters, for one paramName
ScanParam(p, paramName) ==
  LET param == ToLower(paramName)
  IN IF param = AttributeStoragePolicyID THEN [p EXCEPT !.storagePolicyID = p.params[paramName]]
     ELSE IF param = AttributeAffineToHost THEN [p EXCEPT !.affineToHost = MapGet(p.params, AttributeAffineToHost)]
     ELSE p

ScanStart(params) == [pc |-> "scan", params |-> params, todo |-> DOMAIN params, storagePolicyID |-> "", affineToHost |-> ""]

(***************************************************************************)
(* CreateVolume: sizing.  int64 is scaled down to IntBits bits and the     *)
(* units to a few bytes, so that TLC can reach the ends of the range.      *)
(***************************************************************************)
IntBits == 8

\* common.MbInBytes and common.GbInBytes, scaled down
MbInBytes == 4

GbInBytes == 8

\* common.DefaultGbDiskSize
DefaultGbDiskSize == 10

MaxInt == 2 ^ (IntBits - 1) - 1

MinInt == -(2 ^ (IntBits - 1))

\* a result of signed arithmetic in IntBits bits
Wrap(x) == ((x - MinInt) % (2 ^ IntBits)) + MinInt

\* common.RoundUpSize(volumeSizeBytes, allocationUnitBytes): the number of
\* allocation units that hold volumeSizeBytes
RoundUpSize(volumeSizeBytes, allocationUnitBytes) == -((-volumeSizeBytes) \div allocationUnitBytes)

\* volSizeBytes: the default, or RequiredBytes of a present range when not 0
VolSizeBytes(hasRange, requiredBytes) == IF hasRange /\ requiredBytes # 0 THEN requiredBytes ELSE Wrap(DefaultGbDiskSize * GbInBytes)

\* volSizeMB
VolSizeMB(volSizeBytes) == RoundUpSize(volSizeBytes, MbInBytes)

\* CapacityBytes of the response: int64(units.FileSize(volSizeMB * common.MbInBytes))
CapacityBytes(volSizeMB) == Wrap(volSizeMB * MbInBytes)

SizingStart(hasRange, requiredBytes) == [pc |-> "size", hasRange |-> hasRange, requiredBytes |-> requiredBytes, volSizeMB |-> 0, capacityBytes |-> 0]

(***************************************************************************)
(* State                                                                   *)
(***************************************************************************)
VARIABLES
  manager,         \* c.manager: the fields of common.Manager
  virtualCenters,  \* the sessions registered with the VirtualCenterManager
  volumeManagerVC, \* the session the volume manager instance is bound to
  watcher,         \* the watcher goroutine: position and locals of the reload
  recv,            \* history counters of what the watcher received
  pre,             \* c.manager and the active session when the running reload began
  published,       \* the triples c.manager held at the boundaries of reloads
  req,             \* the request being served: handler, position, locals
  backend,         \* volumes and attachments kept by the backing volume manager
  rs,              \* one run of getSharedDatastoresInPodVMK8SCluster
  ps,              \* one run of the parameter scan of CreateVolume
  sz               \* one run of the sizing arithmetic of CreateVolume

vars == <<manager, virtualCenters, volumeManagerVC, watcher, recv, pre, published, req, backend, rs, ps, sz>>

\* the state of the controller and its collaborators
ctl == <<manager, virtualCenters, volumeManagerVC, watcher, recv, pre, published, req, backend>>

\* the three backend-related fields of c.manager
Triple(m) == [VcenterConfig |-> m.VcenterConfig, VcenterManager |-> m.VcenterManager, VolumeManager |-> m.VolumeManager]

\* a session (cnsvsphere.VirtualCenter): its config and the registration that made it
Session(vcconfig, n) == [Config |-> vcconfig, reg |-> n]

\* nil values of the pointer types
NilVCConfig == [Host |-> "", Username |-> "", Password |-> ""]

NilConfig == [Host |-> "", Username |-> "", Password |-> "", ClusterID |-> ""]

NilVC == Session(NilVCConfig, -1)

NilTriple == [VcenterConfig |-> NilVCConfig, VcenterManager |-> -1, VolumeManager |-> -1]

\* VirtualCenterManager.GetVirtualCenter(host) on registry vcs: the session,
\* or nil (with an error) when the host is not registered
VCLookup(vcs, host) == IF \E s \in vcs : s.Config.Host = host THEN CHOOSE s \in vcs : s.Config.Host = host ELSE NilVC

\* common.GetVCenter(ctx, manager): the session of manager.VcenterConfig.Host
GetVCenter(m, vcs) == VCLookup(vcs, m.VcenterConfig.Host)

IdleWatcher == [pc |-> "wait", cfg |-> NilConfig, newVCConfig |-> NilVCConfig, vcenter |-> NilVC, calls |-> <<>>, outcome |-> None, n |-> 0]

\* a request at the entry of its handler
NewRequest(op, valid, volume) == [op |-> op, pc |-> "entry", valid |-> valid, volume |-> volume, ctx |-> "request", cancelled |-> FALSE, seen |-> NilTriple, vc |-> NilVC, boundVC |-> NilVC, vCenterHost |-> "", datastores |-> <<>>, resolveErr |-> "", passed |-> <<>>, calls |-> <<>>, resp |-> None]

IdleRequest == [NewRequest(None, TRUE, "") EXCEPT !.pc = "idle"]

\* controller.Init has returned: one session registered, the manager built
\* from it, the watcher goroutine waiting
CtlInit ==
  /\ manager = [VcenterConfig |-> GetVirtualCenterConfig(InitialConfig), CnsConfig |-> InitialConfig, VolumeManager |-> 0, VcenterManager |-> 0]
  /\ virtualCenters = {Session(GetVirtualCenterConfig(InitialConfig), 0)}
  /\ volumeManagerVC = Session(GetVirtualCenterConfig(InitialConfig), 0)
  /\ watcher = IdleWatcher
  /\ recv = [removes |-> 0, trackedRemovals |-> 0, errors |-> 0, errorLogs |-> 0, closed |-> ""]
  /\ pre = [manager |-> manager, vc |-> volumeManagerVC]
  /\ published = {Triple(manager)}
  /\ req = IdleRequest
  /\ backend = [volumes |-> {}, attached |-> {}]

Init ==
  /\ CtlInit
  /\ rs = ResolverStart(<<>>)
  /\ ps = ScanStart(<<>>)
  /\ sz = SizingStart(FALSE, 0)

(***************************************************************************)
(* The watcher goroutine of controller.Init                                *)
(***************************************************************************)
\* what the watch mechanism delivered, counted apart from what the loop does
\* with it: the mask holds the Remove bit / the event is a removal of the
\* tracked config file
HasRemoveBit(op) == (op % (2 * fsnotifyRemove)) >= fsnotifyRemove

IsTrackedRemoval(e) == e.Name = TrackedFile /\ HasRemoveBit(e.Op)

\* the locals of a fresh call of ReloadConfiguration, the n-th one
ReloadEntry(w) == [w EXCEPT !.pc = "GetConfig", !.cfg = NilConfig, !.newVCConfig = NilVCConfig, !.vcenter = NilVC, !.calls = <<>>, !.outcome = "running", !.n = w.n + 1]

\* a variant that starts the reload in a goroutine of its own (go
\* c.ReloadConfiguration()) and takes the next event at once
WatcherEventMutAsync ==
  /\ watcher.pc # "exit"
  /\ \E e \in FsEvents :
       /\ HasRemoveBit(e.Op) => recv.removes < MaxReloads
       /\ recv' = [recv EXCEPT !.removes = IF HasRemoveBit(e.Op) THEN @ + 1 ELSE @,
                               !.trackedRemovals = IF IsTrackedRemoval(e) THEN @ + 1 ELSE @]
       /\ IF IsRemoveEvent(e)
            THEN /\ watcher' = ReloadEntry(watcher)
                 /\ pre' = [manager |-> manager, vc |-> GetVCenter(manager, virtualCenters)]
            ELSE UNCHANGED <<watcher, pre>>
  /\ UNCHANGED <<manager, virtualCenters, volumeManagerVC, published, req, backend, rs, ps, sz>>

\* case event, ok := <-watcher.Events with ok: a Remove event calls
\* c.ReloadConfiguration(), any other goes back to waiting
WatcherEvent ==
  /\ watcher.pc = "wait"
  /\ \E e \in FsEvents :
       /\ HasRemoveBit(e.Op) => recv.removes < MaxReloads
       /\ recv' = [recv EXCEPT !.removes = IF HasRemoveBit(e.Op) THEN @ + 1 ELSE @,
                               !.trackedRemovals = IF IsTrackedRemoval(e) THEN @ + 1 ELSE @]
       /\ IF IsRemoveEvent(e)
            THEN /\ watcher' = ReloadEntry(watcher)
                 /\ pre' = [manager |-> manager, vc |-> GetVCenter(manager, virtualCenters)]
            ELSE UNCHANGED <<watcher, pre>>
  /\ UNCHANGED <<manager, virtualCenters, volumeManagerVC, published, req, backend, rs, ps, sz>>

\* case event, ok := <-watcher.Events with !ok (the channel was closed): return
WatcherEventsClosed ==
  /\ watcher.pc = "wait"
  /\ watcher' = [watcher EXCEPT !.pc = "exit"]
  /\ recv' = [recv EXCEPT !.closed = "Events"]
  /\ UNCHANGED <<manager, virtualCenters, volumeManagerVC, pre, published, req, backend, rs, ps, sz>>

\* case err, ok := <-watcher.Errors with ok: the body of the case is skipped,
\* nothing is logged but "fsnotify event processed", the loop goes on
WatcherError ==
  /\ watcher.pc = "wait"
  /\ recv.errors < MaxErrors
  /\ recv' = [recv EXCEPT !.errors = @ + 1]
  /\ UNCHANGED <<manager, virtualCenters, volumeManagerVC, watcher, pre, published, req, backend, rs, ps, sz>>

\* case err, ok := <-watcher.Errors with !ok (the channel was closed):
\* log.Errorf("fsnotify error: ...") and return
WatcherErrorsClosed ==
  /\ watcher.pc = "wait"
  /\ watcher' = [watcher EXCEPT !.pc = "exit"]
  /\ recv' = [recv EXCEPT !.closed = "Errors", !.errorLogs = @ + 1]
  /\ UNCHANGED <<manager, virtualCenters, volumeManagerVC, pre, published, req, backend, rs, ps, sz>>

(***************************************************************************)
(* controller.ReloadConfiguration, one action per call or field write      *)
(***************************************************************************)
\* return: the locals cfg and vcenter are gone (newVCConfig and the calls are
\* kept as the record of the finished reload)
Return(w, outcome) == [w EXCEPT !.pc = "wait", !.outcome = outcome, !.cfg = NilConfig, !.vcenter = NilVC]

\* a logged failure followed by return
Abort(w, why) == Return(w, why)

Called(w, name, ok) == [w EXCEPT !.calls = Append(@, [call |-> name, ok |-> ok])]

\* a variant that stores cfg in c.manager.CnsConfig as soon as it is read
ReloadGetConfigMutStoresFirst ==
  /\ watcher.pc = "GetConfig"
  /\ \/ watcher' = Abort(watcher, "GetConfigFailed") /\ UNCHANGED manager
     \/ \E cfg \in Configs :
          /\ watcher' = [watcher EXCEPT !.pc = "GetVirtualCenterConfig", !.cfg = cfg]
          /\ manager' = [manager EXCEPT !.CnsConfig = cfg]
  /\ UNCHANGED <<virtualCenters, volumeManagerVC, recv, pre, published, req, backend, rs, ps, sz>>

\* cfg, err := common.GetConfig(ctx)
ReloadGetConfig ==
  /\ watcher.pc = "GetConfig"
  /\ \/ watcher' = Abort(watcher, "GetConfigFailed")
     \/ \E cfg \in Configs : watcher' = [watcher EXCEPT !.pc = "GetVirtualCenterConfig", !.cfg = cfg]
  /\ UNCHANGED <<manager, virtualCenters, volumeManagerVC, recv, pre, published, req, backend, rs, ps, sz>>

\* newVCConfig, err := cnsvsphere.GetVirtualCenterConfig(cfg)
ReloadGetVirtualCenterConfig ==
  /\ watcher.pc = "GetVirtualCenterConfig"
  /\ \/ watcher' = Abort(watcher, "GetVirtualCenterConfigFailed")
     \/ watcher' = [watcher EXCEPT !.pc = "Compare", !.newVCConfig = GetVirtualCenterConfig(watcher.cfg)]
     \/ watcher' = [watcher EXCEPT !.pc = "Compare", !.newVCConfig = NilVCConfig]
  /\ UNCHANGED <<manager, virtualCenters, volumeManagerVC, recv, pre, published, req, backend, rs, ps, sz>>

\* a variant that leaves the password out of the comparison
CredentialsDifferMutNoPassword(old, new) == old.Host # new.Host \/ old.Username # new.Username

\* the condition of the if: Host, Username or Password differs
CredentialsDiffer(old, new) == old.Host # new.Host \/ old.Username # new.Username \/ old.Password # new.Password

\* if newVCConfig != nil { if <credentials differ> ... else ... }
ReloadCompare ==
  /\ watcher.pc = "Compare"
  /\ watcher' = [watcher EXCEPT !.pc =
        IF watcher.newVCConfig = NilVCConfig THEN "SetCnsConfig"
        ELSE IF CredentialsDiffer(manager.VcenterConfig, watcher.newVCConfig) THEN "UnregisterAllVirtualCenters"
        ELSE "GetVirtualCenter"]
  /\ UNCHANGED <<manager, virtualCenters, volumeManagerVC, recv, pre, published, req, backend, rs, ps, sz>>

\* UnregisterAllVirtualCenters: on success no session is registered any more
UnregisterAllVirtualCenters(vcs) == {}

\* err = c.manager.VcenterManager.UnregisterAllVirtualCenters(ctx)
ReloadUnregister ==
  /\ watcher.pc = "UnregisterAllVirtualCenters"
  /\ \/ /\ watcher' = Abort(Called(watcher, "UnregisterAllVirtualCenters", FALSE), "UnregisterFailed")
        /\ UNCHANGED virtualCenters
     \/ /\ watcher' = [Called(watcher, "UnregisterAllVirtualCenters", TRUE) EXCEPT !.pc = "RegisterVirtualCenter"]
        /\ virtualCenters' = UnregisterAllVirtualCenters(virtualCenters)
  /\ UNCHANGED <<manager, volumeManagerVC, recv, pre, published, req, backend, rs, ps, sz>>

\* vcenter, err = c.manager.VcenterManager.RegisterVirtualCenter(ctx, newVCConfig)
ReloadRegister ==
  /\ watcher.pc = "RegisterVirtualCenter"
  /\ \/ /\ watcher' = Abort(Called(watcher, "RegisterVirtualCenter", FALSE), "RegisterFailed")
        /\ UNCHANGED virtualCenters
     \/ /\ watcher' = [Called(watcher, "RegisterVirtualCenter", TRUE) EXCEPT !.pc = "SetVcenterManager", !.vcenter = Session(watcher.newVCConfig, watcher.n)]
        /\ virtualCenters' = virtualCenters \cup {Session(watcher.newVCConfig, watcher.n)}
  /\ UNCHANGED <<manager, volumeManagerVC, recv, pre, published, req, backend, rs, ps, sz>>

\* c.manager.VcenterManager = cnsvsphere.GetVirtualCenterManager(ctx)
ReloadSetVcenterManager ==
  /\ watcher.pc = "SetVcenterManager"
  /\ manager' = [manager EXCEPT !.VcenterManager = watcher.n]
  /\ watcher' = [watcher EXCEPT !.pc = "ResetManager"]
  /\ UNCHANGED <<virtualCenters, volumeManagerVC, recv, pre, published, req, backend, rs, ps, sz>>

\* vcenter, err = c.manager.VcenterManager.GetVirtualCenter(ctx, newVCConfig.Host)
ReloadGetVirtualCenter ==
  /\ watcher.pc = "GetVirtualCenter"
  /\ LET vc == VCLookup(virtualCenters, watcher.newVCConfig.Host)
     IN IF vc = NilVC
          THEN watcher' = Abort(Called(watcher, "GetVirtualCenter", FALSE), "GetVirtualCenterFailed")
          ELSE watcher' = [Called(watcher, "GetVirtualCenter", TRUE) EXCEPT !.pc = "ResetManager", !.vcenter = vc]
  /\ UNCHANGED <<manager, virtualCenters, volumeManagerVC, recv, pre, published, req, backend, rs, ps, sz>>

\* c.manager.VolumeManager.ResetManager(ctx, vcenter): rebinds the instance
ReloadResetManager ==
  /\ watcher.pc = "ResetManager"
  /\ volumeManagerVC' = watcher.vcenter
  /\ watcher' = [watcher EXCEPT !.pc = "SetVolumeManager"]
  /\ UNCHANGED <<manager, virtualCenters, recv, pre, published, req, backend, rs, ps, sz>>

\* the triple c.manager holds once the running reload has made its last write
ReloadTarget == [VcenterConfig |-> watcher.newVCConfig, VcenterManager |-> manager.VcenterManager, VolumeManager |-> watcher.n]

\* c.manager.VolumeManager = cnsvolume.GetManager(ctx, vcenter); when the new
\* config equals the old one this already is the post-reload triple
ReloadSetVolumeManager ==
  /\ watcher.pc = "SetVolumeManager"
  /\ manager' = [manager EXCEPT !.VolumeManager = watcher.n]
  /\ published' = IF Triple(manager') = ReloadTarget THEN published \cup {Triple(manager')} ELSE published
  /\ watcher' = [watcher EXCEPT !.pc = "SetVcenterConfig"]
  /\ UNCHANGED <<virtualCenters, volumeManagerVC, recv, pre, req, backend, rs, ps, sz>>

\* c.manager.VcenterConfig = newVCConfig: the last write to the triple
ReloadSetVcenterConfig ==
  /\ watcher.pc = "SetVcenterConfig"
  /\ manager' = [manager EXCEPT !.VcenterConfig = watcher.newVCConfig]
  /\ published' = published \cup {Triple(manager')}
  /\ watcher' = [watcher EXCEPT !.pc = "SetCnsConfig"]
  /\ UNCHANGED <<virtualCenters, volumeManagerVC, recv, pre, req, backend, rs, ps, sz>>

\* if cfg != nil { c.manager.CnsConfig = cfg }, and the return
ReloadSetCnsConfig ==
  /\ watcher.pc = "SetCnsConfig"
  /\ manager' = [manager EXCEPT !.CnsConfig = watcher.cfg]
  /\ watcher' = Return(watcher, "ok")
  /\ UNCHANGED <<virtualCenters, volumeManagerVC, recv, pre, published, req, backend, rs, ps, sz>>

(***************************************************************************)
(* The request handlers.  One request is served at a time, concurrently    *)
(* with the watcher goroutine; each action is one call of a collaborator   *)
(* or one read of c.manager.                                               *)
(***************************************************************************)
CanStart == req.pc \in {"idle", "done"}

\* the handler returns resp: its locals are gone, the record of the calls it
\* made is kept
Respond(r, resp) == [r EXCEPT !.pc = "done", !.resp = resp, !.ctx = "", !.seen = NilTriple, !.vc = NilVC, !.boundVC = NilVC, !.vCenterHost = "", !.datastores = <<>>, !.resolveErr = ""]

\* a collaborator is called with the ctx the handler holds at that line
Call(r, name) == [r EXCEPT !.calls = Append(@, [call |-> name, ctx |-> r.ctx])]

\* a helper of the package that takes no context
CallLocal(r, name) == [r EXCEPT !.calls = Append(@, [call |-> name, ctx |-> "none"])]

\* the context handed to the next call is the request's and it is cancelled:
\* the collaborator gives up and returns an error
Reaches(r) == r.cancelled /\ r.ctx = "request"

\* hosts lists the requests of the controller model meet
RequestClusters == {c \in Clusters : Len(c) <= 1 /\ \A k \in DOMAIN c : UrlsOf(GetAllAccessibleDatastores(c[k])) \subseteq {"A"}}

\* CreateVolume: validateWCPCreateVolumeRequest, then the spec is built
CreateVolumeValidate ==
  /\ CanStart
  /\ \E valid \in BOOLEAN :
       req' = IF valid THEN [NewRequest("CreateVolume", TRUE, "") EXCEPT !.pc = "GetVCenter"]
              ELSE Respond(NewRequest("CreateVolume", FALSE, ""), "InvalidArgument")
  /\ UNCHANGED <<manager, virtualCenters, volumeManagerVC, watcher, recv, pre, published, backend, rs, ps, sz>>

\* getSharedDatastores: vc, err := common.GetVCenter(ctx, c.manager)
CreateVolumeGetVCenter ==
  /\ req.op = "CreateVolume" /\ req.pc = "GetVCenter"
  /\ LET vc == GetVCenter(manager, virtualCenters)
         r == [Call(req, "GetVCenter") EXCEPT !.seen = Triple(manager)]
     IN IF vc = NilVC THEN req' = Respond(r, "Internal")
        ELSE \/ req' = Respond(r, "Internal")
             \/ ~Reaches(req) /\ req' = [r EXCEPT !.pc = "GetHostsByCluster", !.vc = vc]
  /\ UNCHANGED <<manager, virtualCenters, volumeManagerVC, watcher, recv, pre, published, backend, rs, ps, sz>>

\* a variant that goes on to the create whatever the resolver returned
CreateVolumeGetSharedDatastoresMutIgnoresError ==
  /\ req.op = "CreateVolume" /\ req.pc = "GetHostsByCluster"
  /\ \E hosts \in RequestClusters :
       LET r == IF Reaches(req) THEN ResolverFail(ResolverStart(hosts), "GetHostsByClusterFailed", 0) ELSE SharedDatastores(hosts)
       IN req' = [Call(req, "GetHostsByCluster") EXCEPT !.pc = "CreateBlockVolumeUtil", !.datastores = r.ret, !.resolveErr = r.err]
  /\ UNCHANGED <<manager, virtualCenters, volumeManagerVC, watcher, recv, pre, published, backend, rs, ps, sz>>

\* getSharedDatastores from vc.GetHostsByCluster on, and the error check of
\* CreateVolume on its result
CreateVolumeGetSharedDatastores ==
  /\ req.op = "CreateVolume" /\ req.pc = "GetHostsByCluster"
  /\ \/ req' = Respond(Call(req, "GetHostsByCluster"), "Internal")
     \/ \E hosts \in RequestClusters :
          LET r == IF Reaches(req) THEN ResolverFail(ResolverStart(hosts), "GetHostsByClusterFailed", 0) ELSE SharedDatastores(hosts)
          IN req' = IF r.err # "" THEN Respond(Call(req, "GetHostsByCluster"), "Internal")
                    ELSE [Call(req, "GetHostsByCluster") EXCEPT !.pc = "CreateBlockVolumeUtil", !.datastores = r.ret, !.resolveErr = r.err]
  /\ UNCHANGED <<manager, virtualCenters, volumeManagerVC, watcher, recv, pre, published, backend, rs, ps, sz>>

\* common.CreateBlockVolumeUtil(ctx, flavor, c.manager, &createVolumeSpec, sharedDatastores)
CreateVolumeCreateBlockVolumeUtil ==
  /\ req.op = "CreateVolume" /\ req.pc = "CreateBlockVolumeUtil"
  /\ LET r == [Call(req, "CreateBlockVolumeUtil") EXCEPT !.boundVC = volumeManagerVC, !.passed = req.datastores]
     IN \/ /\ req' = Respond(r, "Internal")
           /\ UNCHANGED backend
        \/ \E v \in VolumeIds :
             /\ ~Reaches(req)
             /\ req' = Respond([r EXCEPT !.volume = v], "OK")
             /\ backend' = [backend EXCEPT !.volumes = @ \cup {v}]
  /\ UNCHANGED <<manager, virtualCenters, volumeManagerVC, watcher, recv, pre, published, rs, ps, sz>>

\* DeleteVolume: validateWCPDeleteVolumeRequest
DeleteVolumeValidate ==
  /\ CanStart
  /\ \E valid \in BOOLEAN, v \in VolumeIds :
       req' = IF valid THEN [NewRequest("DeleteVolume", TRUE, v) EXCEPT !.pc = "DeleteVolumeUtil"]
              ELSE Respond(NewRequest("DeleteVolume", FALSE, v), "InvalidArgument")
  /\ UNCHANGED <<manager, virtualCenters, volumeManagerVC, watcher, recv, pre, published, backend, rs, ps, sz>>

\* common.DeleteVolumeUtil(ctx, c.manager, req.VolumeId, true)
DeleteVolumeDeleteVolumeUtil ==
  /\ req.op = "DeleteVolume" /\ req.pc = "DeleteVolumeUtil"
  /\ LET r == [Call(req, "DeleteVolumeUtil") EXCEPT !.boundVC = volumeManagerVC]
     IN \/ /\ req' = Respond(r, "Internal")
           /\ UNCHANGED backend
        \/ /\ ~Reaches(req)
           /\ req' = Respond(r, "OK")
           /\ backend' = [volumes |-> backend.volumes \ {req.volume}, attached |-> backend.attached \ {req.volume}]
  /\ UNCHANGED <<manager, virtualCenters, volumeManagerVC, watcher, recv, pre, published, rs, ps, sz>>

\* a variant that looks up the node before it validates the request
PublishValidateMutLookupFirst ==
  /\ CanStart
  /\ \E v \in VolumeIds :
       \/ req' = Respond(Call(NewRequest("ControllerPublishVolume", FALSE, v), "getVMUUIDFromPodListenerService"), "InvalidArgument")
       \/ req' = Respond(Call(NewRequest("ControllerPublishVolume", TRUE, v), "getVMUUIDFromPodListenerService"), "Internal")
       \/ req' = [Call(NewRequest("ControllerPublishVolume", TRUE, v), "getVMUUIDFromPodListenerService") EXCEPT !.pc = "getDatacenterFromConfig"]
  /\ UNCHANGED <<manager, virtualCenters, volumeManagerVC, watcher, recv, pre, published, backend, rs, ps, sz>>

\* ControllerPublishVolume: validateWCPControllerPublishVolumeRequest, then
\* vmuuid, err := getVMUUIDFromPodListenerService(ctx, req.VolumeId, req.NodeId)
PublishValidate ==
  /\ CanStart
  /\ \E v \in VolumeIds :
       \/ req' = Respond(NewRequest("ControllerPublishVolume", FALSE, v), "InvalidArgument")
       \/ req' = Respond(Call(NewRequest("ControllerPublishVolume", TRUE, v), "getVMUUIDFromPodListenerService"), "Internal")
       \/ req' = [Call(NewRequest("ControllerPublishVolume", TRUE, v), "getVMUUIDFromPodListenerService") EXCEPT !.pc = "getDatacenterFromConfig"]
  /\ UNCHANGED <<manager, virtualCenters, volumeManagerVC, watcher, recv, pre, published, backend, rs, ps, sz>>

\* vcdcMap, err := getDatacenterFromConfig(c.manager.CnsConfig), and the
\* loop taking vCenterHost from it
PublishGetDatacenter ==
  /\ req.op = "ControllerPublishVolume" /\ req.pc = "getDatacenterFromConfig"
  /\ \/ req' = Respond(CallLocal(req, "getDatacenterFromConfig"), "Internal")
     \/ req' = [CallLocal(req, "getDatacenterFromConfig") EXCEPT !.pc = "GetVirtualCenter", !.vCenterHost = manager.CnsConfig.Host]
  /\ UNCHANGED <<manager, virtualCenters, volumeManagerVC, watcher, recv, pre, published, backend, rs, ps, sz>>

\* vc, err := c.manager.VcenterManager.GetVirtualCenter(ctx, vCenterHost);
\* the error branch formats vc.Config.Host with vc nil; on success
\* ctx, cancel := context.WithCancel(context.Background()) replaces ctx
PublishGetVirtualCenter ==
  /\ req.op = "ControllerPublishVolume" /\ req.pc = "GetVirtualCenter"
  /\ LET vc == VCLookup(virtualCenters, req.vCenterHost)
     IN req' = IF vc = NilVC THEN Respond(Call(req, "GetVirtualCenter"), "panic")
               ELSE [Call(req, "GetVirtualCenter") EXCEPT !.pc = "Connect", !.vc = vc, !.vCenterHost = "", !.ctx = "background"]
  /\ UNCHANGED <<manager, virtualCenters, volumeManagerVC, watcher, recv, pre, published, backend, rs, ps, sz>>

\* err = vc.Connect(ctx), then
\* podVM, err := getVMByInstanceUUIDInDatacenter(ctx, vc, dcMorefValue, vmuuid)
PublishConnect ==
  /\ req.op = "ControllerPublishVolume" /\ req.pc = "Connect"
  /\ \/ req' = Respond(Call(req, "Connect"), "Internal")
     \/ req' = Respond(Call(Call(req, "Connect"), "getVMByInstanceUUIDInDatacenter"), "Internal")
     \/ ~Reaches(req) /\ req' = [Call(Call(req, "Connect"), "getVMByInstanceUUIDInDatacenter") EXCEPT !.pc = "AttachVolumeUtil"]
  /\ UNCHANGED <<manager, virtualCenters, volumeManagerVC, watcher, recv, pre, published, backend, rs, ps, sz>>

\* diskUUID, err := common.AttachVolumeUtil(ctx, c.manager, podVM, req.VolumeId)
PublishAttach ==
  /\ req.op = "ControllerPublishVolume" /\ req.pc = "AttachVolumeUtil"
  /\ LET r == [Call(req, "AttachVolumeUtil") EXCEPT !.boundVC = volumeManagerVC]
     IN \/ /\ req' = Respond(r, "Internal")
           /\ UNCHANGED backend
        \/ /\ req.volume \in backend.volumes
           /\ ~Reaches(req)
           /\ req' = Respond(r, "OK")
           /\ backend' = [backend EXCEPT !.attached = @ \cup {req.volume}]
  /\ UNCHANGED <<manager, virtualCenters, volumeManagerVC, watcher, recv, pre, published, rs, ps, sz>>

\* a variant that detaches the volume
UnpublishMutDetach(b, volume) == [b EXCEPT !.attached = @ \ {volume}]

\* the caller cancels the context of the request being served, or its
\* deadline expires
CancelRequest ==
  /\ ~CanStart
  /\ ~req.cancelled
  /\ req' = [req EXCEPT !.cancelled = TRUE]
  /\ UNCHANGED <<manager, virtualCenters, volumeManagerVC, watcher, recv, pre, published, backend, rs, ps, sz>>

\* what ControllerUnpublishVolume does to the volumes and attachments: nothing
UnpublishEffect(b, volume) == b

\* ControllerUnpublishVolume, the whole handler: validation, then success
ControllerUnpublishVolume ==
  /\ CanStart
  /\ \E valid \in BOOLEAN, v \in VolumeIds :
       /\ req' = Respond(NewRequest("ControllerUnpublishVolume", valid, v), IF valid THEN "OK" ELSE "InvalidArgument")
       /\ backend' = IF valid THEN UnpublishEffect(backend, v) ELSE backend
  /\ UNCHANGED <<manager, virtualCenters, volumeManagerVC, watcher, recv, pre, published, rs, ps, sz>>

\* The controller: the reloads the watcher runs and the requests served
\* meanwhile.  What the watcher does with the errors and the closing of the
\* channels of the watch mechanism changes nothing of the controller (after
\* it has returned the controller goes on as one that gets no more events);
\* those steps are in SpecWatcher.
Next ==
  \/ WatcherEvent
  \/ ReloadGetConfig
  \/ ReloadGetVirtualCenterConfig
  \/ ReloadCompare
  \/ ReloadUnregister
  \/ ReloadRegister
  \/ ReloadSetVcenterManager
  \/ ReloadGetVirtualCenter
  \/ ReloadResetManager
  \/ ReloadSetVolumeManager
  \/ ReloadSetVcenterConfig
  \/ ReloadSetCnsConfig
  \/ CreateVolumeValidate
  \/ CreateVolumeGetVCenter
  \/ CreateVolumeGetSharedDatastores
  \/ CreateVolumeCreateBlockVolumeUtil
  \/ DeleteVolumeValidate
  \/ DeleteVolumeDeleteVolumeUtil
  \/ PublishValidate
  \/ PublishGetDatacenter
  \/ PublishGetVirtualCenter
  \/ PublishConnect
  \/ PublishAttach
  \/ ControllerUnpublishVolume

Spec == Init /\ [][Next]_vars

(***************************************************************************)
(* The watcher goroutine and the reloads it runs, with the transient       *)
(* errors of the watch mechanism (no request is being served)              *)
(***************************************************************************)
NextWatcher ==
  \/ WatcherEvent
  \/ WatcherEventsClosed
  \/ WatcherError
  \/ WatcherErrorsClosed
  \/ ReloadGetConfig
  \/ ReloadGetVirtualCenterConfig
  \/ ReloadCompare
  \/ ReloadUnregister
  \/ ReloadRegister
  \/ ReloadSetVcenterManager
  \/ ReloadGetVirtualCenter
  \/ ReloadResetManager
  \/ ReloadSetVolumeManager
  \/ ReloadSetVcenterConfig
  \/ ReloadSetCnsConfig

SpecWatcher == Init /\ [][NextWatcher]_vars

(***************************************************************************)
(* The handlers with a caller that may cancel the request it is waiting    *)
(* for (no reload is running)                                              *)
(***************************************************************************)
Handlers ==
  \/ CreateVolumeValidate
  \/ CreateVolumeGetVCenter
  \/ CreateVolumeGetSharedDatastores
  \/ CreateVolumeCreateBlockVolumeUtil
  \/ DeleteVolumeValidate
  \/ DeleteVolumeDeleteVolumeUtil
  \/ PublishValidate
  \/ PublishGetDatacenter
  \/ PublishGetVirtualCenter
  \/ PublishConnect
  \/ PublishAttach
  \/ ControllerUnpublishVolume

NextCancel == Handlers \/ CancelRequest

SpecCancel == Init /\ [][NextCancel]_vars

(***************************************************************************)
(* getSharedDatastoresInPodVMK8SCluster on its own, one loop iteration per *)
(* step, over every cluster within the bounds                              *)
(***************************************************************************)
InitResolver ==
  /\ CtlInit
  /\ rs \in {ResolverStart(c) : c \in Clusters}
  /\ ps = ScanStart(<<>>)
  /\ sz = SizingStart(FALSE, 0)

\* common.GetVCenter, vc.GetHostsByCluster and the check of len(hosts)
ResolverEntry ==
  /\ rs.pc = "entry"
  /\ \/ rs' = ResolverFail(rs, "GetVCenterFailed", 0)
     \/ rs' = ResolverFail(rs, "GetHostsByClusterFailed", 0)
     \/ rs' = CheckHosts(rs)
  /\ UNCHANGED <<ctl, ps, sz>>

\* one iteration of the loop over hosts, or the return after it
ResolverLoop ==
  /\ rs.pc = "loop"
  /\ rs' = LoopStep(rs)
  /\ UNCHANGED <<ctl, ps, sz>>

NextResolver == ResolverEntry \/ ResolverLoop

SpecResolver == InitResolver /\ [][NextResolver]_vars

(***************************************************************************)
(* The parameter scan of CreateVolume on its own: range over a Go map      *)
(* visits the keys in any order                                            *)
(***************************************************************************)
InitParams ==
  /\ CtlInit
  /\ rs = ResolverStart(<<>>)
  /\ ps \in {ScanStart(m) : m \in ParamMaps}
  /\ sz = SizingStart(FALSE, 0)

\* one iteration of for paramName := range req.Parameters
ParamScanStep ==
  /\ ps.pc = "scan"
  /\ \E paramName \in ps.todo : ps' = [ScanParam(ps, paramName) EXCEPT !.todo = @ \ {paramName}]
  /\ UNCHANGED <<ctl, rs, sz>>

\* the loop is over: createVolumeSpec takes storagePolicyID and affineToHost
ParamScanDone ==
  /\ ps.pc = "scan"
  /\ ps.todo = {}
  /\ ps' = [ps EXCEPT !.pc = "done"]
  /\ UNCHANGED <<ctl, rs, sz>>

NextParams == ParamScanStep \/ ParamScanDone

SpecParams == InitParams /\ [][NextParams]_vars

(***************************************************************************)
(* The sizing of CreateVolume on its own, over every RequiredBytes         *)
(***************************************************************************)
InitSizing ==
  /\ CtlInit
  /\ rs = ResolverStart(<<>>)
  /\ ps = ScanStart(<<>>)
  /\ sz \in {SizingStart(TRUE, b) : b \in 0..MaxInt} \cup {SizingStart(FALSE, 0)}

\* volSizeBytes and volSizeMB, the CapacityMB of the create spec
SizeCompute ==
  /\ sz.pc = "size"
  /\ sz' = [sz EXCEPT !.pc = "respond", !.volSizeMB = VolSizeMB(VolSizeBytes(sz.hasRange, sz.requiredBytes))]
  /\ UNCHANGED <<ctl, rs, ps>>

\* CapacityBytes of the response
SizeRespond ==
  /\ sz.pc = "respond"
  /\ sz' = [sz EXCEPT !.pc = "done", !.capacityBytes = CapacityBytes(sz.volSizeMB)]
  /\ UNCHANGED <<ctl, rs, ps>>

NextSizing == SizeCompute \/ SizeRespond

SpecSizing == InitSizing /\ [][NextSizing]_vars

(***************************************************************************)
(* Properties                                                              *)
(***************************************************************************)

\* C1: no Create/Delete/Publish request ever reads a c.manager whose
\* VcenterConfig, VcenterManager and VolumeManager are a mix of two reloads:
\* every triple a request reads is one c.manager held at the boundary of a
\* reload (entirely pre-reload or entirely post-reload).
C1_NoTornRead == req.seen = NilTriple \/ req.seen \in published

\* C2: when a reload that found changed credentials fails at deregistration
\* or at registration, it has not changed c.manager and a CreateVolume issued
\* right after it still obtains the session that was active before it.
C2_FailedReloadKeepsSession ==
  (watcher.pc = "wait" /\ watcher.outcome \in {"UnregisterFailed", "RegisterFailed"})
    => /\ manager = pre.manager
       /\ pre.vc # NilVC => GetVCenter(manager, virtualCenters) = pre.vc

\* the calls of a reload, once it is past its comparison of the credentials
PastCompare == watcher.n >= 1 /\ watcher.newVCConfig # NilVCConfig /\ watcher.pc \notin {"GetVirtualCenterConfig", "Compare"}

\* the reload has made all the session calls it makes
PastSessionCalls == watcher.pc \in {"SetVcenterManager", "ResetManager", "SetVolumeManager", "SetVcenterConfig", "SetCnsConfig"} \/ (watcher.pc \in {"wait", "exit"} /\ watcher.outcome = "ok")

\* C6: a reload whose new endpoint config has the host, user name and
\* password of the active one only looks up the existing session (no
\* deregister, no register); a reload where one of them differs deregisters
\* all sessions first and registers the new config only after that succeeded.
C6_ReloadSessionCalls ==
  LET calls == watcher.calls
      same == pre.manager.VcenterConfig = watcher.newVCConfig
  IN PastCompare =>
       IF same
         THEN /\ \A i \in DOMAIN calls : calls[i].call = "GetVirtualCenter"
              /\ Len(calls) <= 1
              /\ PastSessionCalls => calls = <<[call |-> "GetVirtualCenter", ok |-> TRUE]>>
         ELSE /\ Len(calls) <= 2
              /\ Len(calls) >= 1 => calls[1].call = "UnregisterAllVirtualCenters"
              /\ Len(calls) = 2 => calls[1].ok /\ calls[2].call = "RegisterVirtualCenter"
              /\ watcher.pc = "RegisterVirtualCenter" => calls = <<[call |-> "UnregisterAllVirtualCenters", ok |-> TRUE]>>
              /\ PastSessionCalls => calls = <<[call |-> "UnregisterAllVirtualCenters", ok |-> TRUE], [call |-> "RegisterVirtualCenter", ok |-> TRUE]>>

\* a reload with changed credentials has deregistered, registered and returned
C6_Witness == watcher.pc = "wait" /\ watcher.outcome = "ok" /\ pre.manager.VcenterConfig # watcher.newVCConfig /\ Len(watcher.calls) = 2

\* a step that serves a ControllerUnpublishVolume request (nothing else moves)
UnpublishStep == CanStart /\ req'.op = "ControllerUnpublishVolume" /\ req'.pc = "done" /\ watcher' = watcher /\ recv' = recv

C10_ReloadPerRemoveEvent == watcher.n = recv.removes

\* two Remove events were received and the second reload, like any, ran once
\* and failed without being run again
C10_Witness == watcher.n = 2 /\ recv.removes = 2 /\ watcher.pc = "wait" /\ watcher.outcome = "GetConfigFailed"

\* C10 as stated: the watcher calls the reload once for each removal of the
\* tracked config file and for no other event.
C10_ReloadPerTrackedRemoval == watcher.n = recv.trackedRemovals

\* the resolver got its host list and has returned
ResolverRan == rs.pc = "done" /\ rs.err \notin {"GetVCenterFailed", "GetHostsByClusterFailed"}

AllFetchesOk(hosts) == \A k \in DOMAIN hosts : hosts[k].ok

\* the first host's list, kept to the entries whose URL every other host has
FirstHostFiltered(hosts) == SelectSeq(GetAllAccessibleDatastores(hosts[1]), LAMBDA d : \A k \in 2..Len(hosts) : \E j \in DOMAIN hosts[k].urls : hosts[k].urls[j] = d.Url)

\* C3: with at least one host, every fetch succeeding and a non-empty
\* intersection, the resolver returns the first host's list filtered to the
\* entries whose URL is in every other host's list, in the first host's
\* order; with one host it returns that host's list unchanged.
C3_ResolverResult ==
  (ResolverRan /\ Len(rs.hosts) >= 1 /\ AllFetchesOk(rs.hosts) /\ FirstHostFiltered(rs.hosts) # <<>>)
    => /\ rs.err = ""
       /\ rs.ret = FirstHostFiltered(rs.hosts)
       /\ Len(rs.hosts) = 1 => rs.ret = GetAllAccessibleDatastores(rs.hosts[1])

\* H1 = [A, B, C] and H2 = [C, B] gave H1's B and C, in H1's order
C3_Witness ==
  /\ ResolverRan /\ rs.err = "" /\ Len(rs.hosts) = 2
  /\ rs.hosts[1].urls = <<"A", "B", "C">> /\ rs.hosts[2].urls = <<"C", "B">>
  /\ rs.ret = <<[Url |-> "B", From |-> 1], [Url |-> "C", From |-> 1]>>

\* C4: when the host list is empty or some host, at whatever position,
\* reports no accessible datastore, the resolver returns an error and no
\* datastore.
C4_EmptyHostFails ==
  (ResolverRan /\ (Len(rs.hosts) = 0 \/ \E k \in DOMAIN rs.hosts : rs.hosts[k].ok /\ rs.hosts[k].urls = <<>>))
    => rs.err # "" /\ rs.ret = <<>>

\* the last of three hosts reports nothing, the first two share a datastore
C4_Witness ==
  /\ ResolverRan /\ Len(rs.hosts) = 3
  /\ rs.hosts[3].ok /\ rs.hosts[3].urls = <<>>
  /\ rs.hosts[1].urls = <<"A">> /\ rs.hosts[2].urls = <<"A">>
  /\ rs.err = "NoSharedDatastores" /\ rs.errHost = 3

\* the orders in which n hosts can be visited
Orderings(n) == {p \in [1..n -> 1..n] : \A i, j \in 1..n : i # j => p[i] # p[j]}

Reordered(hosts, p) == [k \in DOMAIN hosts |-> hosts[p[k]]]

\* list follows the order of the accessible list of host
FollowsOrderOf(list, host) == list = SelectSeq(GetAllAccessibleDatastores(host), LAMBDA d : d.Url \in UrlsOf(list))

\* C5: visiting the same hosts, with the same lists, in another order gives
\* the same kind of outcome and, on success, the same set of URLs; the list
\* returned follows the order of the host visited first.
C5_OrderIndependent ==
  ResolverRan =>
    /\ rs.err = "" => FollowsOrderOf(rs.ret, rs.hosts[1])
    /\ \A p \in Orderings(Len(rs.hosts)) :
         LET other == SharedDatastores(Reordered(rs.hosts, p))
         IN /\ (other.err = "") = (rs.err = "")
            /\ rs.err = "" => /\ UrlsOf(other.ret) = UrlsOf(rs.ret)
                              /\ FollowsOrderOf(other.ret, rs.hosts[p[1]])

\* three hosts resolved, and another visiting order returns the same URLs in
\* another order
C5_Witness ==
  /\ ResolverRan /\ rs.err = "" /\ Len(rs.hosts) = 3 /\ Len(rs.ret) >= 2
  /\ \E p \in Orderings(3) : SharedDatastores(Reordered(rs.hosts, p)).ret # rs.ret /\ UrlsOf(SharedDatastores(Reordered(rs.hosts, p)).ret) = UrlsOf(rs.ret)

\* the names of params that match name without regard to case
Matching(params, name) == {k \in DOMAIN params : ToLower(k) = name}

\* C7: the storage policy id and the host affinity of the create spec are
\* the values stored under the names that match the recognized names without
\* regard to case (and empty when none matches); other names are ignored.
C7_CaseInsensitiveParams ==
  ps.pc = "done" =>
    /\ Matching(ps.params, AttributeStoragePolicyID) # {} => ps.storagePolicyID \in {ps.params[k] : k \in Matching(ps.params, AttributeStoragePolicyID)}
    /\ Matching(ps.params, AttributeStoragePolicyID) = {} => ps.storagePolicyID = ""
    /\ Matching(ps.params, AttributeAffineToHost) # {} => ps.affineToHost \in {ps.params[k] : k \in Matching(ps.params, AttributeAffineToHost)}
    /\ Matching(ps.params, AttributeAffineToHost) = {} => ps.affineToHost = ""

\* C8: without a capacity range, or with RequiredBytes 0, the default size is
\* used; otherwise the capacity sent downstream is RequiredBytes rounded up
\* to whole units, and the capacity returned is that count times the unit: a
\* multiple of the unit, at least RequiredBytes and less than a unit above it.
C8_CapacityRounding ==
  sz.pc = "done" =>
    IF ~sz.hasRange \/ sz.requiredBytes = 0
      THEN sz.volSizeMB * MbInBytes = DefaultGbDiskSize * GbInBytes /\ sz.capacityBytes = DefaultGbDiskSize * GbInBytes
      ELSE /\ sz.capacityBytes = sz.volSizeMB * MbInBytes
           /\ sz.capacityBytes % MbInBytes = 0
           /\ sz.capacityBytes >= sz.requiredBytes
           /\ sz.capacityBytes - sz.requiredBytes < MbInBytes

\* a step of a request whose context was cancelled before the step
CancelledStep == ~CanStart /\ req.cancelled /\ req' # req

\* C11: once the context of a Create, Delete or Publish request is
\* cancelled, every remote call the request still makes is handed that
\* context, nothing more is done to the backend and the request ends with a
\* cancellation-class error.
C11_CancelEndsRequest ==
  [][CancelledStep =>
       /\ \A i \in DOMAIN req'.calls : (i > Len(req.calls) /\ req'.calls[i].ctx # "none") => req'.calls[i].ctx = "request"
       /\ backend' = backend
       /\ req'.pc = "done" => req'.resp = "Canceled"]_vars
\* the step of a request in which the backing volume manager is used: the
\* create of CreateVolume, the attach of ControllerPublishVolume
BackendStep == req.pc \in {"CreateBlockVolumeUtil", "AttachVolumeUtil"} /\ req' # req /\ req'.cancelled = req.cancelled

\* C12: a request that obtained its session before a reload published its
\* result makes its remaining steps against that session: when it comes to
\* use the volume manager, the volume manager is still bound to the session
\* the request holds.
C12_InFlightKeepsSession == [][BackendStep => volumeManagerVC = req.vc]_vars
\* the failures of a reload before it has touched the sessions
EarlyFailures == {"GetConfigFailed", "GetVirtualCenterConfigFailed", "GetVirtualCenterFailed"}

\* the step in which the running reload returns after one of them
EarlyAbortStep == watcher.outcome = "running" /\ watcher'.outcome \in EarlyFailures

\* C13: a reload that fails at reading the configuration, at deriving the
\* endpoint config or, with unchanged credentials, at looking up the session
\* returns with VcenterConfig, VcenterManager, VolumeManager and CnsConfig of
\* c.manager as they were when it began, and the request being served is not
\* touched by it.
C13_EarlyFailureKeepsState == [][EarlyAbortStep => manager' = pre.manager /\ req' = req]_vars

\* the session lookup of a reload with unchanged credentials failed (an
\* earlier reload had deregistered the session) and c.manager is as before
C13_Witness == watcher.pc = "wait" /\ watcher.outcome = "GetVirtualCenterFailed" /\ watcher.newVCConfig = manager.VcenterConfig /\ manager = pre.manager
\* the calls ControllerPublishVolume makes after validation, in its order
PublishSteps == <<"getVMUUIDFromPodListenerService", "getDatacenterFromConfig", "GetVirtualCenter", "Connect", "getVMByInstanceUUIDInDatacenter", "AttachVolumeUtil">>

\* C14: a ControllerPublishVolume request that passed validation and did not
\* succeed is answered with an internal-class error, whichever step failed
\* (the session lookup included: an error response, not a crash), and the
\* calls it made are exactly the steps up to the failed one.
C14_PublishFailuresAreInternal ==
  (req.op = "ControllerPublishVolume" /\ req.pc = "done" /\ req.valid /\ req.resp # "OK")
    => /\ req.resp = "Internal"
       /\ Len(req.calls) \in 1..Len(PublishSteps)
       /\ \A i \in DOMAIN req.calls : req.calls[i].call = PublishSteps[i]
\* the URLs every one of the first k hosts reports
CommonUrls(hosts, k) == {u \in Urls : \A j \in 1..k : \E x \in DOMAIN hosts[j].urls : hosts[j].urls[x] = u}

\* the first host whose fetch fails or that leaves no common URL (0: none)
FirstStop(hosts) ==
  LET stops == {k \in DOMAIN hosts : ~hosts[k].ok \/ CommonUrls(hosts, k) = {}}
  IN IF stops = {} THEN 0 ELSE CHOOSE k \in stops : \A j \in stops : k <= j

\* C15: when the fetch of a host fails or the running shared list becomes
\* empty at a host, the resolver fails there: the hosts fetched are exactly
\* those up to that host, none after it, and the error for the empty list
\* names that host.
C15_ShortCircuit ==
  (ResolverRan /\ FirstStop(rs.hosts) # 0)
    => LET k == FirstStop(rs.hosts)
       IN /\ rs.fetched = [j \in 1..k |-> rs.hosts[j].Name]
          /\ rs.ret = <<>>
          /\ rs.err = IF rs.hosts[k].ok THEN "NoSharedDatastores" ELSE "FetchFailed"
          /\ rs.errHost = rs.hosts[k].Name

\* the second of three hosts shares nothing with the first: the third, which
\* has datastores, was never asked
C15_Witness ==
  /\ ResolverRan /\ Len(rs.hosts) = 3 /\ rs.hosts[3].ok /\ rs.hosts[3].urls # <<>>
  /\ rs.hosts[1].urls = <<"A">> /\ rs.hosts[2].ok /\ rs.hosts[2].urls = <<"B">>
  /\ rs.fetched = <<1, 2>> /\ rs.err = "NoSharedDatastores" /\ rs.errHost = 2

\* C20: in the loop of the resolver the running shared list is not empty at
\* the start of an iteration after the first (so it is seeded from the first
\* host only) and each of its elements is an element of the first host's
\* list.
C20_SharedFromFirstHost ==
  (rs.pc = "loop" /\ rs.i > 1)
    => /\ rs.shared # <<>>
       /\ \A j \in DOMAIN rs.shared : \E x \in DOMAIN GetAllAccessibleDatastores(rs.hosts[1]) : rs.shared[j] = GetAllAccessibleDatastores(rs.hosts[1])[x]

\* the loop is at its third host with a list kept from the first
C20_Witness == rs.pc = "loop" /\ rs.i = 3 /\ Len(rs.hosts) = 3 /\ Len(rs.shared) = 2 /\ Len(rs.hosts[1].urls) = 3 /\ rs.hosts[2].urls # rs.hosts[1].urls
\* the watcher takes a transient error / the close of the error channel
TransientErrorStep == recv'.errors = recv.errors + 1

ErrorsClosedStep == recv.closed = "" /\ recv'.closed = "Errors"

\* C16: the watcher loop ends when the error channel of the watch mechanism
\* is closed; a transient error delivered on it is logged and the loop keeps
\* waiting, ready for the next event.
C16_WatcherErrors ==
  [][/\ ErrorsClosedStep => watcher'.pc = "exit"
     /\ TransientErrorStep => (recv'.errorLogs = recv.errorLogs + 1 /\ watcher'.pc = "wait")]_vars
\* C17: the watcher takes an event only while it is waiting, that is after
\* the reload of the previous event has returned: a reload begins only when
\* none is running, and every write to c.manager is made by the one reload
\* that is running.
C17_ReloadsSerial ==
  [][/\ recv' # recv => watcher.pc = "wait"
     /\ watcher'.n # watcher.n => (watcher.pc = "wait" /\ watcher.outcome # "running" /\ watcher'.n = watcher.n + 1)
     /\ manager' # manager => (watcher.outcome = "running" /\ watcher'.n = watcher.n)]_vars

\* the second reload is writing c.manager after the first one wrote it and
\* returned
C17_Witness == watcher.n = 2 /\ watcher.pc = "SetVcenterConfig" /\ manager.VolumeManager = 2 /\ manager.CnsConfig # InitialConfig
\* a step of the CreateVolume handler
CreateStep == req'.op = "CreateVolume" /\ req' # req /\ req'.cancelled = req.cancelled

\* the step calls common.CreateBlockVolumeUtil
CallsCreate == CreateStep /\ Len(req'.calls) = Len(req.calls) + 1 /\ req'.calls[Len(req'.calls)].call = "CreateBlockVolumeUtil"

\* C18: CreateVolume returns the error of the validation as it is, returns a
\* failure of the datastore resolution or of the backing create as an
\* internal-class error, and calls the backing create only after the
\* resolution succeeded, with the list it returned.
C18_CreateVolumeErrors ==
  [][/\ (CreateStep /\ req'.pc = "done" /\ ~req'.valid) => (req'.resp = "InvalidArgument" /\ req'.calls = <<>>)
     /\ (CreateStep /\ req'.pc = "done" /\ req'.valid /\ req'.resp # "OK") => (req'.resp = "Internal" /\ Len(req'.calls) >= 1)
     /\ CallsCreate => /\ req.resolveErr = "" /\ req.datastores # <<>>
                        /\ req'.passed = req.datastores
                        /\ Len(req.calls) = 2 /\ req.calls[1].call = "GetVCenter" /\ req.calls[2].call = "GetHostsByCluster"]_vars

\* a volume was created with the one datastore the resolver returned
C18_Witness == req.op = "CreateVolume" /\ req.pc = "done" /\ req.resp = "OK" /\ Len(req.passed) = 1 /\ req.volume \in backend.volumes

\* C19: when the validation of a Create, Delete, Publish or Unpublish
\* request fails the handler returns the validation error before it calls
\* any collaborator, and c.manager, the sessions, the volume manager binding
\* and the volumes are unchanged.
C19_InvalidRequestDoesNothing ==
  [][(req' # req /\ req'.pc = "done" /\ ~req'.valid)
       => /\ req'.resp = "InvalidArgument"
          /\ req'.calls = <<>>
          /\ UNCHANGED <<manager, virtualCenters, volumeManagerVC, backend>>]_vars

\* an invalid publish request for an existing volume was refused
C19_Witness == req.op = "ControllerPublishVolume" /\ req.pc = "done" /\ ~req.valid /\ req.resp = "InvalidArgument" /\ req.volume \in backend.volumes /\ req.volume \notin backend.attached
====
